---------------------------- MODULE Spec2Model ----------------------------
(***************************************************************************)
(* Model of the DWH Orders-to-Cash extraction pipeline                     *)
(* (src/main/M01_combine_sql.py and the modules under src/processes).      *)
(*                                                                         *)
(* The pipeline is modelled in three parts, each with its own              *)
(* specification over the shared variables:                                *)
(*   SpecUpload     run_item_level_query: the distinct identifiers and the *)
(*                  chunked upload into the temporary table;               *)
(*   SpecTransform  transform_item_data (relabel, pivot, total, merge,     *)
(*                  clear, sort, select) and the way main() ends after it; *)
(*   SpecExport     the provider subsets and the export loop of main().    *)
(* A data frame is a record [columns, rows]; a missing string cell is      *)
(* None, a numeric cell is NaN (<<>>) or Num(v) (<<v>>).                   *)
(***************************************************************************)
EXTENDS Integers, Sequences, FiniteSets, TLC

VARIABLES
    \* ---- run_item_level_query ----
    upc,            \* position in run_item_level_query
    id_column,      \* df_orders["gp_order_id"], the input of the upload
    chunk_size,     \* the chunk size of the run
    gp_order_ids,   \* the list built at line 99
    i,              \* the loop variable of line 110
    temp_order_ids, \* rows of the temporary table on the connection
    earlier_ids,    \* the rows earlier runs on the connection left in the table
    batches,        \* the batches handed to executemany, in call order
    reported,       \* the values of `done` printed after each chunk
    queried,        \* the identifiers the item query was scoped to
    statements,     \* the statements issued on the connection, in order
    \* ---- transform_item_data and the end of main() ----
    tpc,            \* "start", "transformed" (the call has ended), "ended" (main has)
    df_orders,      \* the Order Record table
    df_items_in,    \* the Item Aggregate table as run_item_level_query returned it
    df_items,       \* the same table after the relabeling of line 156
    df_pivot,       \* the wide table of lines 164-178
    df_final,       \* the merged table entering line 192
    result,         \* what the call produced: [status, frame]
    export_reached, \* main() went on to the export of lines 232-264
    \* ---- the provider subsets and the export loop of main() ----
    xpc,            \* "start", "loop", "done" (main returned), "failed" (a write raised)
    df_export,      \* df_final as lines 236-241 read it
    subsets,        \* provider -> the rows of its subset
    provider_index, \* the position of the loop of line 254 in provider_map
    files,          \* provider -> the rows written to its file
    dirs,           \* the providers whose output directory was made
    skipped,        \* the providers reported as having no rows
    \* ---- connect_to_snowflake and set_snowflake_context ----
    cpc,            \* position of the caller of connect_to_snowflake
    environ,        \* os.environ: the five SNOWFLAKE_ variables the code reads
    stored_user,    \* the local of line 87: SNOWFLAKE_USER as read and stripped
    creds,          \* the dict get_snowflake_credentials returned
    source,         \* which branch of lines 90-100 gave the identity
    thread,         \* the _connect thread: "none", "running", or what it left in conn_container
    attempts,       \* calls of snowflake.connector.connect begun in this call
    prompts,        \* the input() prompts shown, in order
    waited,         \* time the caller has been blocked on the attempt it is waiting for
    exit_reason,    \* why the call ended without a connection
    session,        \* warehouse, database and schema in effect on the connection
    connection,     \* the warehouse connection of the run: "none", "open", "closed"
    cursor,         \* the cursor of set_snowflake_context: "none", "open", "closed"
    exported,       \* "no", or the state of the connection when main() wrote the files
    stdout,         \* the object sys.stdout names: "sink" or the thread's "buffer"
    saved_stdout,   \* what redirect_stdout saved on entry, "none" before the entry
    notice,         \* where the timeout notice was written, "none" if it was not
    earlier_thread, \* the attempt thread of an earlier, timed-out UI run
    \* ---- the GUI: run_extraction and _execute_main ----
    run_button,     \* state of the trigger: "normal" or "disabled"
    cfg,            \* REPORTING_START_DATE and REPORTING_END_DATE of P07_module_configs
    workers,        \* the worker threads started, in order, each with its position
    triggers,       \* trigger actions handled so far
    callback_errors,\* exceptions that left run_extraction
    dialogs         \* the error dialogs shown to the operator

uploadVars == <<upc, id_column, chunk_size, gp_order_ids, i, temp_order_ids, earlier_ids,
                batches, reported, queried, statements>>

transformVars == <<tpc, df_orders, df_items_in, df_items, df_pivot, df_final,
                   result, export_reached>>

exportVars == <<xpc, df_export, subsets, provider_index, files, dirs, skipped>>

connectVars == <<cpc, environ, stored_user, creds, source, thread, attempts, prompts, waited,
                 exit_reason, session, connection, cursor, exported,
                 stdout, saved_stdout, notice, earlier_thread>>

\* The variables of the connection apart from os.environ, which the GUI writes.
connectLocals == <<cpc, stored_user, creds, source, thread, attempts, prompts, waited,
                   exit_reason, session, connection, cursor, exported,
                   stdout, saved_stdout, notice, earlier_thread>>

guiVars == <<run_button, cfg, workers, triggers, callback_errors, dialogs>>

vars == <<uploadVars, transformVars, exportVars, connectVars, guiVars>>

\* What the actions of one part leave alone.
notUpload == <<transformVars, exportVars, connectVars, guiVars>>
notTransform == <<uploadVars, exportVars, connectVars, guiVars>>
notExport == <<uploadVars, transformVars, connectVars, guiVars>>
notConnect == <<uploadVars, transformVars, exportVars, guiVars>>
notGui == <<uploadVars, transformVars, exportVars, connectLocals>>

(***************************************************************************)
(* Bounds of the model.                                                    *)
(***************************************************************************)
MaxUploadRows == 4
MaxChunk == 3
MaxOrderRows == 2
MaxItemRows == 2
MaxExportRows == 1
MaxOverrun == 2
MaxTriggers == 2

(***************************************************************************)
(* Values.                                                                 *)
(***************************************************************************)
None == "None"
NaN == <<>>
Num(v) == <<v>>

Min(a, b) == IF a <= b THEN a ELSE b

Range(s) == {s[k] : k \in 1..Len(s)}

SeqsUpTo(S, n) == UNION {[1..k -> S] : k \in 0..n}

RECURSIVE Flatten(_)
Flatten(ss) == IF ss = <<>> THEN <<>> ELSE Head(ss) \o Flatten(Tail(ss))

(***************************************************************************)
(* The part of the state a specification does not use stays idle.          *)
(***************************************************************************)
NoFrame == [columns |-> <<>>, rows |-> <<>>]
NoPivot == [index |-> <<>>, columns |-> <<>>, data |-> <<>>]
NoResult == [status |-> "none", frame |-> NoFrame]

IdleUpload ==
    /\ upc = "idle"
    /\ id_column = <<>>
    /\ chunk_size = 1
    /\ gp_order_ids = <<>>
    /\ i = 0
    /\ temp_order_ids = <<>>
    /\ earlier_ids = <<>>
    /\ batches = <<>>
    /\ reported = <<>>
    /\ queried = {}
    /\ statements = <<>>

IdleTransform ==
    /\ tpc = "idle"
    /\ df_orders = NoFrame
    /\ df_items_in = <<>>
    /\ df_items = <<>>
    /\ df_pivot = NoPivot
    /\ df_final = NoFrame
    /\ result = NoResult
    /\ export_reached = FALSE

IdleExport ==
    /\ xpc = "idle"
    /\ df_export = <<>>
    /\ subsets = <<>>
    /\ provider_index = 1
    /\ files = <<>>
    /\ dirs = {}
    /\ skipped = {}

\* P07_module_configs lines 49-50.
StaticPeriod == [start |-> "2025-11-01", end |-> "2025-11-30"]

IdleGui ==
    /\ run_button = "normal"
    /\ cfg = StaticPeriod
    /\ workers = <<>>
    /\ triggers = 0
    /\ callback_errors = <<>>
    /\ dialogs = <<>>

Unset == "<unset>"

NoCreds == [user |-> "", warehouse |-> "", database |-> "", schema |-> ""]

NoSession == [warehouse |-> "", database |-> "", schema |-> ""]

IdleConnect ==
    /\ cpc = "idle"
    /\ environ = [v \in {"SNOWFLAKE_USER", "SNOWFLAKE_WAREHOUSE", "SNOWFLAKE_DATABASE",
                         "SNOWFLAKE_SCHEMA"} |-> Unset]
    /\ stored_user = ""
    /\ creds = NoCreds
    /\ source = "none"
    /\ thread = "none"
    /\ attempts = 0
    /\ prompts = <<>>
    /\ waited = 0
    /\ exit_reason = "none"
    /\ session = NoSession
    /\ connection = "none"
    /\ cursor = "none"
    /\ exported = "no"
    /\ stdout = "sink"
    /\ earlier_thread = "none"
    /\ saved_stdout = "none"
    /\ notice = "none"

(***************************************************************************)
(* run_item_level_query                                                    *)
(***************************************************************************)
UploadIds == {"A", "B", "C"}

\* A dropna() that drops nothing.
DropNaKeepsAll(col) == col

\* Series.dropna(): the non-missing cells, in their order.
RECURSIVE DropNa(_)
DropNa(col) ==
    IF col = <<>> THEN <<>>
    ELSE IF Head(col) = None THEN DropNa(Tail(col))
    ELSE <<Head(col)>> \o DropNa(Tail(col))

\* Series.unique(): the first occurrence of each value, in order of appearance.
RECURSIVE Unique(_)
Unique(col) ==
    IF col = <<>> THEN <<>>
    ELSE LET init == Unique(SubSeq(col, 1, Len(col) - 1))
             last == col[Len(col)]
         IN  IF last \in Range(init) THEN init ELSE Append(init, last)

\* gp_order_ids[i:i + chunk_size] for the 0-based i of the loop.
ChunkSliceShort(ids, at, size) == SubSeq(ids, at + 1, Min(at + size, Len(ids)) - 1)

ChunkSlice(ids, at, size) == SubSeq(ids, at + 1, Min(at + size, Len(ids)))

\* What the temporary table of the connection may hold when the call begins:
\* nothing, or the identifiers of an earlier run.
EarlierTables == {<<>>, <<"C">>, <<"A", "C">>}

\* CREATE TABLE IF NOT EXISTS: the table is left as it is.
CreateIfNotExists(table) == table

\* Line 105: CREATE OR REPLACE TEMP TABLE: the table is there and empty.
CreateOrReplace(table) == <<>>

\* A count that is not held at the total.
DoneUncapped(at, size, total) == at + size

\* Line 113: done = min(i + chunk_size, len(gp_order_ids)).
Done(at, size, total) == Min(at + size, total)

InitUpload ==
    /\ upc = "start"
    /\ id_column \in SeqsUpTo(UploadIds \cup {None}, MaxUploadRows)
    /\ chunk_size \in 1..MaxChunk
    /\ gp_order_ids = <<>>
    /\ i = 0
    /\ earlier_ids \in EarlierTables
    /\ temp_order_ids = earlier_ids
    /\ batches = <<>>
    /\ reported = <<>>
    /\ queried = {}
    /\ statements = <<>>
    /\ IdleTransform
    /\ IdleExport
    /\ IdleConnect
    /\ IdleGui

\* Lines 99-101: the distinct non-missing identifiers; none is a ValueError.
ExtractIds ==
    /\ upc = "start"
    /\ gp_order_ids' = Unique(DropNa(id_column))
    /\ upc' = IF gp_order_ids' = <<>> THEN "error" ELSE "create"
    /\ UNCHANGED <<earlier_ids, id_column, chunk_size, i, temp_order_ids, batches, reported,
                   queried, statements>>
    /\ UNCHANGED notUpload

\* Lines 104-105: CREATE OR REPLACE TEMP TABLE empties the table.
CreateTempTable ==
    /\ upc = "create"
    /\ temp_order_ids' = CreateOrReplace(temp_order_ids)
    /\ i' = 0
    /\ statements' = Append(statements, "CREATE OR REPLACE TEMP TABLE")
    /\ upc' = "loop"
    /\ UNCHANGED <<earlier_ids, id_column, chunk_size, gp_order_ids, batches, reported, queried>>
    /\ UNCHANGED notUpload

\* Lines 110-115: one turn of the loop, the insert of one chunk and its report.
InsertChunk ==
    /\ upc = "loop"
    /\ i < Len(gp_order_ids)
    /\ LET chunk == ChunkSlice(gp_order_ids, i, chunk_size)
           done  == Done(i, chunk_size, Len(gp_order_ids))
       IN  /\ batches' = Append(batches, chunk)
           /\ temp_order_ids' = temp_order_ids \o chunk
           /\ reported' = Append(reported, done)
    /\ i' = i + chunk_size
    /\ statements' = Append(statements, "INSERT")
    /\ UNCHANGED <<earlier_ids, upc, id_column, chunk_size, gp_order_ids, queried>>
    /\ UNCHANGED notUpload

\* Lines 116-129: the loop has ended; the item query reads the temporary table.
RunItemQuery ==
    /\ upc = "loop"
    /\ i >= Len(gp_order_ids)
    /\ queried' = Range(temp_order_ids)
    /\ statements' = Append(statements, "SELECT")
    /\ upc' = "done"
    /\ UNCHANGED <<earlier_ids, id_column, chunk_size, gp_order_ids, i, temp_order_ids, batches,
                   reported>>
    /\ UNCHANGED notUpload

NextUpload ==
    \/ ExtractIds
    \/ CreateTempTable
    \/ InsertChunk
    \/ RunItemQuery

SpecUpload == InitUpload /\ [][NextUpload]_vars

(***************************************************************************)
(* C1: once the upload loop has ended, the concatenation of the batches    *)
(* handed to the batched INSERT is the list of distinct identifiers, each  *)
(* identifier inserted exactly once; during the loop the batches are the   *)
(* prefix of the list inserted so far.                                     *)
(***************************************************************************)
C1_BatchesAreInput ==
    /\ upc = "loop" =>
          Flatten(batches) = SubSeq(gp_order_ids, 1, Min(i, Len(gp_order_ids)))
    /\ upc = "done" =>
          /\ Flatten(batches) = gp_order_ids
          /\ temp_order_ids = gp_order_ids
          /\ \A a, b \in 1..Len(temp_order_ids) :
                temp_order_ids[a] = temp_order_ids[b] => a = b
          /\ Range(temp_order_ids) = Range(id_column) \ {None}

\* An upload that ended after at least two batches, the last one short.
C1_Witness ==
    /\ upc = "done"
    /\ Len(batches) >= 2
    /\ Len(gp_order_ids) % chunk_size # 0
    /\ Len(batches[Len(batches)]) < chunk_size

(***************************************************************************)
(* Column labels.                                                          *)
(***************************************************************************)
\* P04_static_lists.py, lines 27-35: the labels main() selects, as written.
FINAL_DF_ORDER == <<
    "GP_ORDER_ID", "GP_ORDER_ID_OBFUSCATED", "MP_ORDER_ID", "PAYMENT_SYSTEM",
    "BRAINTREE_TX_INDEX", "BRAINTREE_TX_ID", "LOCATION_NAME", "ORDER_VENDOR",
    "VENDOR_GROUP", "ORDER_COMPLETED", "CREATED_AT_TIMESTAMP", "DELIVERED_AT_TIMESTAMP",
    "CREATED_AT_DAY", "CREATED_AT_WEEK", "CREATED_AT_MONTH", "DELIVERED_AT_DAY",
    "DELIVERED_AT_WEEK", "DELIVERED_AT_MONTH", "OPS_DATE_DAY", "OPS_DATE_WEEK",
    "OPS_DATE_MONTH", "POST_PROMO_SALES_INC_VAT", "DELIVERY_FEE_INC_VAT", "PRIORITY_FEE_INC_VAT",
    "SMALL_ORDER_FEE_INC_VAT", "MP_BAG_FEE_INC_VAT", "TOTAL_PAYMENT_INC_VAT", "TIPS_AMOUNT",
    "TOTAL_PAYMENT_WITH_TIPS_INC_VAT", "POST_PROMO_SALES_EXC_VAT", "DELIVERY_FEE_EXC_VAT", "PRIORITY_FEE_EXC_VAT",
    "SMALL_ORDER_FEE_EXC_VAT", "MP_BAG_FEE_EXC_VAT", "TOTAL_REVENUE_EXC_VAT", "COST_OF_GOODS_INC_VAT",
    "COST_OF_GOODS_EXC_VAT", "ALT_POST_PROMO_SALES_INC_VAT", "ALT_DELIVERY_FEE_EXC_VAT", "ALT_PRIORITY_FEE_EXC_VAT",
    "ALT_SMALL_ORDER_FEE_EXC_VAT", "ALT_TOTAL_PAYMENT_WITH_TIPS_INC_VAT", "TOTAL_PRODUCTS", "ITEM_QUANTITY_COUNT_0",
    "ITEM_QUANTITY_COUNT_5", "ITEM_QUANTITY_COUNT_20", "TOTAL_PRICE_EXC_VAT_0", "TOTAL_PRICE_EXC_VAT_5",
    "TOTAL_PRICE_EXC_VAT_20", "TOTAL_PRICE_INC_VAT_0", "TOTAL_PRICE_INC_VAT_5", "TOTAL_PRICE_INC_VAT_20" >>

\* The labels of the order-level query's result after read_sql_clean: the
\* order-level names of the schema in the lower case that normalize_columns
\* gives them and that lines 99, 181 and 187 address them by.
OrderLevelColumns == <<
    "gp_order_id", "gp_order_id_obfuscated", "mp_order_id", "payment_system",
    "braintree_tx_index", "braintree_tx_id", "location_name", "order_vendor",
    "vendor_group", "order_completed", "created_at_timestamp", "delivered_at_timestamp",
    "created_at_day", "created_at_week", "created_at_month", "delivered_at_day",
    "delivered_at_week", "delivered_at_month", "ops_date_day", "ops_date_week",
    "ops_date_month", "post_promo_sales_inc_vat", "delivery_fee_inc_vat", "priority_fee_inc_vat",
    "small_order_fee_inc_vat", "mp_bag_fee_inc_vat", "total_payment_inc_vat", "tips_amount",
    "total_payment_with_tips_inc_vat", "post_promo_sales_exc_vat", "delivery_fee_exc_vat", "priority_fee_exc_vat",
    "small_order_fee_exc_vat", "mp_bag_fee_exc_vat", "total_revenue_exc_vat", "cost_of_goods_inc_vat",
    "cost_of_goods_exc_vat", "alt_post_promo_sales_inc_vat", "alt_delivery_fee_exc_vat", "alt_priority_fee_exc_vat",
    "alt_small_order_fee_exc_vat", "alt_total_payment_with_tips_inc_vat" >>

\* The values of the pivot (line 168) in the order sort_index gives the columns.
SortedMetrics == <<"item_quantity_count", "total_price_exc_vat", "total_price_inc_vat">>

\* The band labels of the model in the order Python compares strings: the four
\* labels of the item query, their codes, and one label the mapping does not know.
SortedBandLabels == <<"0", "0% VAT Band", "10% VAT Band", "20", "20% VAT Band", "5",
                      "5% VAT Band", "Other / Unknown VAT Band", "other">>

\* Order identifiers in the order Python compares strings.
SortedIds == <<"A", "B", "C">>

RankIn(order, x) == CHOOSE k \in 1..Len(order) : order[k] = x

\* The members of S as a sequence in the order of `order`.
SortedSeq(order, S) == SelectSeq(order, LAMBDA x : x \in S)

(***************************************************************************)
(* transform_item_data                                                     *)
(***************************************************************************)
\* Lines 156-161: Series.replace with the four-entry mapping.
VatBandCodeNoOther(label) ==
    CASE label = "0% VAT Band" -> "0"
      [] label = "5% VAT Band" -> "5"
      [] label = "20% VAT Band" -> "20"
      [] OTHER -> label

VatBandCode(label) ==
    CASE label = "0% VAT Band" -> "0"
      [] label = "5% VAT Band" -> "5"
      [] label = "20% VAT Band" -> "20"
      [] label = "Other / Unknown VAT Band" -> "other"
      [] OTHER -> label

RelabelItems(items) ==
    [k \in 1..Len(items) |-> [items[k] EXCEPT !.vat_band = VatBandCode(@)]]

\* Line 175: the flattened column label.
ColumnName(metric, band) == metric \o "_" \o band

\* aggfunc="sum" of one (order, band) group; zero for a group with no row
\* (fill_value=0).
RECURSIVE AggLast(_, _, _, _)
AggLast(items, id, band, metric) ==
    IF items = <<>> THEN 0
    ELSE LET r == items[Len(items)]
         IN  IF r.gp_order_id = id /\ r.vat_band = band THEN r[metric]
             ELSE AggLast(SubSeq(items, 1, Len(items) - 1), id, band, metric)

RECURSIVE AggSum(_, _, _, _)
AggSum(items, id, band, metric) ==
    IF items = <<>> THEN 0
    ELSE LET r == Head(items)
         IN  (IF r.gp_order_id = id /\ r.vat_band = band THEN r[metric] ELSE 0)
             + AggSum(Tail(items), id, band, metric)

\* The (metric, band) pair a flattened label stands for.
MetricColumnLabels ==
    {ColumnName(m, b) : m \in Range(SortedMetrics), b \in Range(SortedBandLabels)}

LabelParts ==
    [c \in MetricColumnLabels |->
        CHOOSE p \in Range(SortedMetrics) \X Range(SortedBandLabels) :
            ColumnName(p[1], p[2]) = c]

\* Lines 164-175: pivot_table by order identifier and band. The index holds the
\* identifiers that occur, sorted; the columns hold one label per metric and per
\* band that occurs in the table, sorted by metric and then by band.
PivotTable(items) ==
    LET ids   == {items[k].gp_order_id : k \in 1..Len(items)}
        bands == SortedSeq(SortedBandLabels, {items[k].vat_band : k \in 1..Len(items)})
        nb    == Len(bands)
        cols  == [n \in 1..(Len(SortedMetrics) * nb) |->
                    ColumnName(SortedMetrics[((n - 1) \div nb) + 1], bands[((n - 1) % nb) + 1])]
    IN  [index   |-> SortedSeq(SortedIds, ids),
         columns |-> cols,
         data    |-> [id \in ids |->
                        [c \in Range(cols) |->
                            AggSum(items, id, LabelParts[c][2], LabelParts[c][1])]]]

\* filter(like="item_quantity_count_"): the labels holding that text.
QuantityColumnLabels ==
    {ColumnName("item_quantity_count", b) : b \in Range(SortedBandLabels)}

IsKnownQuantityColumn(c) ==
    c \in {ColumnName("item_quantity_count", b) : b \in {"0", "5", "20", "other"}}

IsQuantityColumn(c) == c \in QuantityColumnLabels

RECURSIVE SumCells(_, _)
SumCells(row, cols) ==
    IF cols = <<>> THEN 0 ELSE row[Head(cols)] + SumCells(row, Tail(cols))

\* Line 178: total_products, the row-wise sum of the quantity columns.
AddTotalProducts(pivot) ==
    LET qcols == SelectSeq(pivot.columns, IsQuantityColumn)
    IN  [index   |-> pivot.index,
         columns |-> Append(pivot.columns, "total_products"),
         data    |-> [id \in DOMAIN pivot.data |->
                        [c \in Range(pivot.columns) \cup {"total_products"} |->
                            IF c = "total_products"
                            THEN SumCells(pivot.data[id], qcols)
                            ELSE pivot.data[id][c]]]]

\* An inner join: the rows without a match are dropped.
MergeInner(orders, pivot) ==
    [columns |-> orders.columns \o pivot.columns,
     rows    |-> SelectSeq([k \in 1..Len(orders.rows) |->
                              LET r == orders.rows[k]
                              IN  [c \in (DOMAIN r) \cup Range(pivot.columns) |->
                                      IF c \in DOMAIN r THEN r[c]
                                      ELSE IF r["gp_order_id"] \in DOMAIN pivot.data
                                           THEN Num(pivot.data[r["gp_order_id"]][c])
                                           ELSE NaN]],
                           LAMBDA row : row["gp_order_id"] \in DOMAIN pivot.data)]

\* Line 181: the left join on gp_order_id against the pivot's index. The index
\* is unique, so each order row is kept once; a row without a match gets NaN.
MergeLeft(orders, pivot) ==
    [columns |-> orders.columns \o pivot.columns,
     rows    |-> [k \in 1..Len(orders.rows) |->
                    LET r == orders.rows[k]
                    IN  [c \in (DOMAIN r) \cup Range(pivot.columns) |->
                            IF c \in DOMAIN r THEN r[c]
                            ELSE IF r["gp_order_id"] \in DOMAIN pivot.data
                                 THEN Num(pivot.data[r["gp_order_id"]][c])
                                 ELSE NaN]]]

\* Line 185: x in c for two strings, x occurs in c.
Contains(c, x) ==
    \E k \in 1..(Len(c) - Len(x) + 1) : SubSeq(c, k, k + Len(x) - 1) = x

\* Line 186: the four item names.
ItemNames == {"item_quantity_count", "total_price_inc_vat", "total_price_exc_vat",
              "total_products"}

\* A test by the first word of the item names.
IsItemColumnByPrefix(c) == Contains(c, "item_") \/ Contains(c, "total_")

\* Lines 184-186: the labels holding one of the four item names.
IsItemColumn(c) == \E x \in ItemNames : Contains(c, x)

\* Line 187: braintree_tx_index is present and >= 2.
ClearMaskFrom1(row) ==
    row["braintree_tx_index"] # NaN /\ row["braintree_tx_index"][1] >= 1

ClearMask(row) ==
    row["braintree_tx_index"] # NaN /\ row["braintree_tx_index"][1] >= 2

\* Line 188: NaN into the item columns of the masked rows.
ClearItemColumns(frame) ==
    [columns |-> frame.columns,
     rows    |-> [k \in 1..Len(frame.rows) |->
                    LET r == frame.rows[k]
                    IN  IF ClearMask(r)
                        THEN [c \in DOMAIN r |-> IF IsItemColumn(c) THEN NaN ELSE r[c]]
                        ELSE r]]

\* Line 191: the sort key of a row; a missing cell sorts last.
IdKey(row) ==
    IF row["gp_order_id"] = None THEN Len(SortedIds) + 1
    ELSE RankIn(SortedIds, row["gp_order_id"])

TxMissing(row) == row["braintree_tx_index"] = NaN

RowLess(r1, r2) ==
    \/ IdKey(r1) < IdKey(r2)
    \/ /\ IdKey(r1) = IdKey(r2)
       /\ \/ ~TxMissing(r1) /\ TxMissing(r2)
          \/ /\ ~TxMissing(r1) /\ ~TxMissing(r2)
             /\ r1["braintree_tx_index"][1] < r2["braintree_tx_index"][1]

RECURSIVE InsertRow(_, _)
InsertRow(r, s) ==
    IF s = <<>> THEN <<r>>
    ELSE IF RowLess(r, Head(s)) THEN <<r>> \o s
    ELSE <<Head(s)>> \o InsertRow(r, Tail(s))

\* A sort that leaves the rows in the order of the input.
SortRowsKeepsOrder(rows) == rows

RECURSIVE SortRows(_)
SortRows(rows) ==
    IF rows = <<>> THEN <<>>
    ELSE InsertRow(rows[Len(rows)], SortRows(SubSeq(rows, 1, Len(rows) - 1)))

\* Line 191: sort_values by (gp_order_id, braintree_tx_index), ties in input order.
SortValues(frame) == [columns |-> frame.columns, rows |-> SortRows(frame.rows)]

\* Line 192: frame[labels]. A label that is not a column is a KeyError;
\* otherwise the frame holds exactly the labels, in their order.
SelectColumnsLenient(frame, labels) ==
    LET kept == SelectSeq(labels, LAMBDA c : c \in Range(frame.columns))
    IN  [status |-> "returned",
         frame  |-> [columns |-> kept,
                     rows    |-> [k \in 1..Len(frame.rows) |->
                                    [c \in (DOMAIN frame.rows[k]) \cap Range(kept) |->
                                        frame.rows[k][c]]]]]

SelectColumns(frame, labels) ==
    IF \E c \in Range(labels) : c \notin Range(frame.columns)
    THEN [status |-> "KeyError", frame |-> [columns |-> <<>>, rows |-> <<>>]]
    ELSE [status |-> "returned",
          frame  |-> [columns |-> labels,
                      rows    |-> [k \in 1..Len(frame.rows) |->
                                     [c \in (DOMAIN frame.rows[k]) \cap Range(labels) |->
                                         frame.rows[k][c]]]]]

(***************************************************************************)
(* The inputs of transform_item_data.                                      *)
(***************************************************************************)
OrderIds == {"A", "B"}

TxIndexes == {NaN, Num(1), Num(2)}

ItemLabels == {"0% VAT Band", "5% VAT Band", "20% VAT Band",
               "Other / Unknown VAT Band", "10% VAT Band"}

Quantities == {2, 3}

Payments == {Num(7), Num(9)}

\* The cells of an order row: the two the code reads and one monetary field,
\* which the code only carries; the other order-level columns are carried by
\* label only.
OrderCellLabels == {"gp_order_id", "braintree_tx_index", "total_payment_inc_vat"}

OrderRow(id, tx, paid) ==
    [c \in OrderCellLabels |->
        IF c = "gp_order_id" THEN id ELSE IF c = "braintree_tx_index" THEN tx ELSE paid]

OrderRows ==
    {OrderRow(id, tx, paid) : id \in OrderIds \cup {None}, tx \in TxIndexes, paid \in Payments}

\* An item row: a quantity of units at 6 a unit with VAT, 5 without.
ItemRow(id, b, q) ==
    [gp_order_id |-> id, vat_band |-> b, item_quantity_count |-> q,
     total_price_inc_vat |-> 6 * q, total_price_exc_vat |-> 5 * q]

ItemRows == {ItemRow(id, b, q) : id \in OrderIds, b \in ItemLabels, q \in Quantities}

\* The item rows of SpecTransform, whose variety is in the order table: 3 units
\* at 0% or 2 units at 20%.
JoinItemRows ==
    {ItemRow(id, "0% VAT Band", 3) : id \in OrderIds}
        \cup {ItemRow(id, "20% VAT Band", 2) : id \in OrderIds}

\* The states in which main() calls transform_item_data: the order table has a
\* non-missing identifier (line 100 passed), the item table is not empty and
\* holds rows of uploaded identifiers only.
CallState(orders, items) ==
    /\ IdleUpload
    /\ IdleExport
    /\ IdleConnect
    /\ IdleGui
    /\ tpc = "start"
    /\ df_orders = [columns |-> OrderLevelColumns, rows |-> orders]
    /\ df_items_in = items
    /\ df_items = items
    /\ df_pivot = NoPivot
    /\ df_final = NoFrame
    /\ result = NoResult
    /\ export_reached = FALSE

IdsOf(rows) == {rows[k]["gp_order_id"] : k \in 1..Len(rows)}

\* Any order table, with few item rows.
InitTransform ==
    \E orders \in {rs \in SeqsUpTo(OrderRows, MaxOrderRows) : IdsOf(rs) \ {None} # {}} :
    \E items \in {it \in SeqsUpTo(JoinItemRows, MaxItemRows) :
                     it # <<>> /\ IdsOf(it) \subseteq IdsOf(orders)} :
        CallState(orders, items)

\* Any item table, with one order row (of transaction index 1) for each
\* identifier that occurs in it.
OneRowPerId(items) ==
    LET ids == SortedSeq(SortedIds, IdsOf(items))
    IN  [k \in 1..Len(ids) |->
            OrderRow(ids[k], Num(1), Num(7))]

InitPivot ==
    \E items \in SeqsUpTo(ItemRows, MaxItemRows) \ {<<>>} :
        CallState(OneRowPerId(items), items)

\* Lines 155-195, the whole call.
TransformItemData ==
    /\ tpc = "start"
    /\ \E items \in {RelabelItems(df_items)} :                  \* lines 156-161
       \E pivot \in {PivotTable(items)} :                      \* lines 164-175
       \E wide \in {AddTotalProducts(pivot)} :                 \* line 178
       \E merged \in {MergeLeft(df_orders, wide)} :            \* line 181
       \E cleared \in {ClearItemColumns(merged)} :             \* lines 184-188
       \E sorted \in {SortValues(cleared)} :                   \* line 191
          /\ df_items' = items
          /\ df_pivot' = wide
          /\ df_final' = sorted
          /\ result' = SelectColumns(sorted, FINAL_DF_ORDER)   \* line 192
    /\ tpc' = "transformed"
    /\ UNCHANGED <<df_orders, df_items_in, export_reached>>
    /\ UNCHANGED notTransform

\* Lines 223-232 of main(): a KeyError of the call ends main(); otherwise the
\* connection is closed and the export follows.
MainAfterTransform ==
    /\ tpc = "transformed"
    /\ export_reached' = (result.status = "returned")
    /\ tpc' = "ended"
    /\ UNCHANGED <<df_orders, df_items_in, df_items, df_pivot, df_final, result>>
    /\ UNCHANGED notTransform

NextTransform ==
    \/ TransformItemData
    \/ MainAfterTransform

SpecTransform == InitTransform /\ [][NextTransform]_vars

SpecPivot == InitPivot /\ [][NextTransform]_vars

(***************************************************************************)
(* Helpers of the claims about transform_item_data.                        *)
(***************************************************************************)
Called == tpc \in {"transformed", "ended"}

KnownCodes == {"0", "5", "20", "other"}

QuantityOfOrder(items, id) ==
    AggSum([k \in 1..Len(items) |-> [items[k] EXCEPT !.vat_band = "any"]],
           id, "any", "item_quantity_count")

\* A cell of the pivot; a column the pivot does not have counts as zero.
PivotCell(id, c) ==
    IF c \in Range(df_pivot.columns) THEN df_pivot.data[id][c] ELSE 0

\* The label str.upper() gives a label of the pivot.
UpperMetric(m) ==
    CASE m = "item_quantity_count" -> "ITEM_QUANTITY_COUNT"
      [] m = "total_price_exc_vat" -> "TOTAL_PRICE_EXC_VAT"
      [] m = "total_price_inc_vat" -> "TOTAL_PRICE_INC_VAT"

UpperCode(b) == IF b = "other" THEN "OTHER" ELSE b

Arrangements(s) ==
    {[k \in 1..Len(s) |-> s[f[k]]] :
        f \in {g \in [1..Len(s) -> 1..Len(s)] : \A a, b \in 1..Len(s) : g[a] = g[b] => a = b}}

(***************************************************************************)
(* C2: the table transform_item_data returns has every item-derived column *)
(* missing on the rows of transaction index >= 2 and the pivoted aggregate  *)
(* of the order on the rows of index 1 or absent; for one order with        *)
(* transactions 1 and 2 and items of 3 units at 0% and 2 units at 20% the   *)
(* call gives total_products = 5, item_quantity_count_0 = 3 and             *)
(* item_quantity_count_20 = 2 on index 1 and missing values on index 2.     *)
(***************************************************************************)
C2_ExampleInput ==
    /\ Len(df_orders.rows) = 2
    /\ df_orders.rows[1] = OrderRow("A", Num(1), Num(7))
    /\ df_orders.rows[2] = OrderRow("A", Num(2), Num(7))
    /\ df_items_in = <<ItemRow("A", "0% VAT Band", 3), ItemRow("A", "20% VAT Band", 2)>>

C2_ClearedAndExample ==
    Called =>
        /\ result.status = "returned" =>
              \A k \in 1..Len(result.frame.rows) :
                  LET r == result.frame.rows[k]
                  IN  r["BRAINTREE_TX_INDEX"] \in {Num(2)} =>
                          \A c \in {"TOTAL_PRODUCTS", "ITEM_QUANTITY_COUNT_0",
                                    "ITEM_QUANTITY_COUNT_20"} : r[c] = NaN
        /\ C2_ExampleInput =>
              /\ result.status = "returned"
              /\ result.frame.rows[1]["TOTAL_PRODUCTS"] = Num(5)
              /\ result.frame.rows[1]["ITEM_QUANTITY_COUNT_0"] = Num(3)
              /\ result.frame.rows[1]["ITEM_QUANTITY_COUNT_20"] = Num(2)
              /\ result.frame.rows[2]["TOTAL_PRODUCTS"] = NaN

(***************************************************************************)
(* C5: when transform_item_data returns, the columns of its result are the *)
(* 52 labels of FINAL_DF_ORDER in that order; when the merged table lacks  *)
(* a label of FINAL_DF_ORDER the call ends in a KeyError and main() does   *)
(* not reach the export, so no provider file is written.                   *)
(***************************************************************************)
C5_MissingLabel == \E c \in Range(FINAL_DF_ORDER) : c \notin Range(df_final.columns)

C6_NoBandLost ==
    Called =>
        \A m \in Range(SortedMetrics), b \in KnownCodes :
            ColumnName(m, b) \in Range(df_pivot.columns) =>
                ColumnName(UpperMetric(m), UpperCode(b)) \in Range(FINAL_DF_ORDER)

C8_TwelveColumns ==
    Called =>
        /\ Range(df_pivot.index) = IdsOf(df_items_in)
        /\ \A a, b \in 1..Len(df_pivot.index) :
              df_pivot.index[a] = df_pivot.index[b] => a = b
        /\ Range(df_pivot.columns) \ {"total_products"} =
              {ColumnName(m, b) : m \in Range(SortedMetrics), b \in KnownCodes}
        /\ \A id \in DOMAIN df_pivot.data, m \in Range(SortedMetrics), b \in KnownCodes :
              df_pivot.data[id][ColumnName(m, b)] = AggSum(df_items, id, b, m)

(***************************************************************************)
(* C9: the wide table does not depend on the order of the item rows: the   *)
(* pivot of every permutation of the input is the pivot of the input.      *)
(***************************************************************************)
C9_PivotOrderIndependent ==
    Called =>
        \A perm \in Arrangements(df_items_in) :
            AddTotalProducts(PivotTable(RelabelItems(perm))) = df_pivot

\* Two rows of one order and one band with different quantities, and so two
\* different arrangements of the input.
C9_Witness ==
    /\ Called
    /\ Len(df_items_in) >= 2
    /\ df_items_in[1].gp_order_id = df_items_in[2].gp_order_id
    /\ df_items_in[1].vat_band = df_items_in[2].vat_band
    /\ df_items_in[1].item_quantity_count # df_items_in[2].item_quantity_count
    /\ df_pivot.data[df_items_in[1].gp_order_id]["total_products"] >=
          df_items_in[1].item_quantity_count + df_items_in[2].item_quantity_count

(***************************************************************************)
(* C10: the relabeling maps "0% VAT Band" to "0", "5% VAT Band" to "5",    *)
(* "20% VAT Band" to "20" and "Other / Unknown VAT Band" to "other",       *)
(* leaves every other label as it is, and changes nothing else of a row.   *)
(***************************************************************************)
C10_RelabelMapping ==
    Called =>
        /\ Len(df_items) = Len(df_items_in)
        /\ \A k \in 1..Len(df_items_in) :
              LET in  == df_items_in[k].vat_band
                  out == df_items[k].vat_band
              IN  /\ in = "0% VAT Band" => out = "0"
                  /\ in = "5% VAT Band" => out = "5"
                  /\ in = "20% VAT Band" => out = "20"
                  /\ in = "Other / Unknown VAT Band" => out = "other"
                  /\ in \notin {"0% VAT Band", "5% VAT Band", "20% VAT Band",
                                "Other / Unknown VAT Band"} => out = in
                  /\ [df_items[k] EXCEPT !.vat_band = in] = df_items_in[k]

\* A table with a label the mapping knows and one it does not.
C10_Witness ==
    /\ Called
    /\ \E k, n \in 1..Len(df_items_in) :
          /\ df_items_in[k].vat_band = "Other / Unknown VAT Band"
          /\ df_items[k].vat_band = "other"
          /\ df_items_in[n].vat_band = "10% VAT Band"
          /\ df_items[n].vat_band = "10% VAT Band"

(***************************************************************************)
(* The provider subsets and the export loop of main()                      *)
(***************************************************************************)
\* The rows of provider_map in the order the loop of line 254 visits them.
Providers == <<"Braintree", "PayPal", "Uber", "Deliveroo", "Just Eat", "Amazon">>

VendorGroups == {"dtc", "DTC", "marketplace", None}

PaymentSystems == {"paypal", "Paypal", "braintree", None}

OrderVendors == {"uber", "UBER", "deliveroo", "Deliveroo", "just eat", "Just Eat",
                 "justeat", "JUSTEAT", "amazon uk", "Amazon UK", "amazon", "gopuff", None}

\* str.lower() on the values of the model; a missing cell stays missing.
StrLowerIdentity(s) == s

StrLower(s) ==
    CASE s = "DTC" -> "dtc"
      [] s = "Paypal" -> "paypal"
      [] s = "UBER" -> "uber"
      [] s = "Deliveroo" -> "deliveroo"
      [] s = "Just Eat" -> "just eat"
      [] s = "JUSTEAT" -> "justeat"
      [] s = "Amazon UK" -> "amazon uk"
      [] OTHER -> s

\* Lines 236-241: the six masks. A comparison with a missing cell is False for
\* == and isin, and True for !=.
InBraintree(r) ==
    StrLower(r["vendor_group"]) = "dtc" /\ StrLower(r["payment_system"]) # "paypal"

InPayPalAnyGroup(r) == StrLower(r["payment_system"]) = "paypal"

InPayPal(r) ==
    StrLower(r["vendor_group"]) = "dtc" /\ StrLower(r["payment_system"]) = "paypal"

InUber(r) == StrLower(r["order_vendor"]) = "uber"

InDeliveroo(r) == StrLower(r["order_vendor"]) = "deliveroo"

InJustEat(r) == StrLower(r["order_vendor"]) \in {"just eat", "justeat"}

InAmazon(r) == StrLower(r["order_vendor"]) = "amazon uk"

InProvider(p, r) ==
    CASE p = "Braintree" -> InBraintree(r)
      [] p = "PayPal" -> InPayPal(r)
      [] p = "Uber" -> InUber(r)
      [] p = "Deliveroo" -> InDeliveroo(r)
      [] p = "Just Eat" -> InJustEat(r)
      [] p = "Amazon" -> InAmazon(r)

ExportRows ==
    {[c \in {"vendor_group", "payment_system", "order_vendor"} |->
         CASE c = "vendor_group" -> vg
           [] c = "payment_system" -> ps
           [] c = "order_vendor" -> ov] :
        vg \in VendorGroups, ps \in PaymentSystems, ov \in OrderVendors}

\* The state in which main() comes to line 236: the table of line 223 read by
\* the three lower-case labels, no file written.
InitExport ==
    /\ IdleUpload
    /\ IdleTransform
    /\ IdleConnect
    /\ IdleGui
    /\ xpc = "start"
    /\ df_export \in SeqsUpTo(ExportRows, MaxExportRows) \ {<<>>}
    /\ subsets = <<>>
    /\ provider_index = 1
    /\ files = <<>>
    /\ dirs = {}
    /\ skipped = {}

\* Lines 236-251: the six subsets, each the rows of its mask in table order.
BuildSubsets ==
    /\ xpc = "start"
    /\ subsets' = [p \in Range(Providers) |->
                     SelectSeq(df_export, LAMBDA r : InProvider(p, r))]
    /\ provider_index' = 1
    /\ xpc' = "loop"
    /\ UNCHANGED <<df_export, files, dirs, skipped>>
    /\ UNCHANGED notExport

\* A loop that ends at the first provider it has dealt with.
NextPositionBreak ==
    /\ provider_index' = provider_index + 1
    /\ xpc' = "done"

NextPosition ==
    /\ provider_index' = provider_index + 1
    /\ xpc' = IF provider_index = Len(Providers) THEN "done" ELSE "loop"

\* Lines 255-257: an empty subset is reported and skipped.
SkipProvider ==
    /\ xpc = "loop"
    /\ subsets[Providers[provider_index]] = <<>>
    /\ skipped' = skipped \cup {Providers[provider_index]}
    /\ NextPosition
    /\ UNCHANGED <<df_export, subsets, files, dirs>>
    /\ UNCHANGED notExport

\* Lines 259-264: the directory is made and the subset written to its file.
SaveProvider ==
    /\ xpc = "loop"
    /\ subsets[Providers[provider_index]] # <<>>
    /\ dirs' = dirs \cup {Providers[provider_index]}
    /\ files' = (Providers[provider_index] :> subsets[Providers[provider_index]]) @@ files
    /\ NextPosition
    /\ UNCHANGED <<df_export, subsets, skipped>>
    /\ UNCHANGED notExport

\* A failed write that takes the files written before it away.
WriteFailsRollsBack(written, provider) == {<<>>}

\* Lines 259-263: what a raising mkdir or to_csv leaves: the files written
\* before are as they were, and the provider's own file is not there or is
\* there without its rows.
WriteFails(written, provider) == {written, (provider :> <<>>) @@ written}

\* Lines 259-263: mkdir or to_csv raises (the drive is not there, the file is
\* open elsewhere); the error leaves main().
SaveProviderFails ==
    /\ xpc = "loop"
    /\ subsets[Providers[provider_index]] # <<>>
    /\ dirs' \in {dirs, dirs \cup {Providers[provider_index]}}
    /\ files' \in WriteFails(files, Providers[provider_index])
    /\ Providers[provider_index] \in DOMAIN files' => Providers[provider_index] \in dirs'
    /\ xpc' = "failed"
    /\ UNCHANGED <<df_export, subsets, provider_index, skipped>>
    /\ UNCHANGED notExport

NextExport ==
    \/ BuildSubsets
    \/ SkipProvider
    \/ SaveProvider
    \/ SaveProviderFails

SpecExport == InitExport /\ [][NextExport]_vars

(***************************************************************************)
(* Helpers of the claims about the provider subsets.                       *)
(***************************************************************************)
Partitioned == xpc \in {"loop", "done", "failed"}

SubsetsOf(r) == {p \in Range(Providers) : r \in Range(subsets[p])}

FilesOf(r) == {p \in DOMAIN files : r \in Range(files[p])}

IsDtc(r) == r["vendor_group"] \in {"dtc", "DTC"}

IsPaypal(r) == r["payment_system"] \in {"paypal", "Paypal"}

(***************************************************************************)
(* C3: every record is selected into at most one of the six provider       *)
(* subsets, so no record is written to two provider files; a record that   *)
(* matches no rule is written to no file.                                  *)
(***************************************************************************)
C3_AtMostOneBucket ==
    Partitioned =>
        \A k \in 1..Len(df_export) :
            /\ Cardinality(SubsetsOf(df_export[k])) <= 1
            /\ Cardinality(FilesOf(df_export[k])) <= 1

(***************************************************************************)
(* The overlap the masks of lines 236-241 allow: a record is selected into *)
(* at most one of Braintree and PayPal and into at most one of Uber,       *)
(* Deliveroo, Just Eat and Amazon; it is in two subsets exactly when its   *)
(* vendor_group is dtc and its order_vendor is one of the four vendors'    *)
(* names, and it is then written to two provider files.                    *)
(***************************************************************************)
C3_AtMostTwoBuckets ==
    Partitioned =>
        \A k \in 1..Len(df_export) :
            LET r  == df_export[k]
                in == SubsetsOf(r)
            IN  /\ Cardinality(in \cap {"Braintree", "PayPal"}) <= 1
                /\ Cardinality(in \cap {"Uber", "Deliveroo", "Just Eat", "Amazon"}) <= 1
                /\ Cardinality(in) = 2 <=>
                      /\ IsDtc(r)
                      /\ r["order_vendor"] \in
                            {"uber", "UBER", "deliveroo", "Deliveroo", "just eat", "Just Eat",
                             "justeat", "JUSTEAT", "amazon uk", "Amazon UK"}
                /\ FilesOf(r) \subseteq in
                /\ xpc = "done" => FilesOf(r) = in

\* A record of vendor_group dtc and order_vendor uber has been written to the
\* Braintree file and to the Uber file.
C3_Witness ==
    /\ xpc = "done"
    /\ \E k \in 1..Len(df_export) :
          /\ IsDtc(df_export[k])
          /\ df_export[k]["order_vendor"] = "uber"
          /\ FilesOf(df_export[k]) = {"Braintree", "Uber"}

(***************************************************************************)
(* C4: the subsets a record is selected into depend only on vendor_group,  *)
(* payment_system and order_vendor, letter case ignored, and follow the    *)
(* rule table: Braintree for dtc without paypal, PayPal for dtc with       *)
(* paypal, Uber, Deliveroo and Amazon for the order_vendor uber, deliveroo *)
(* and amazon uk, Just Eat for just eat or justeat.                        *)
(***************************************************************************)
C4_RuleTable ==
    Partitioned =>
        \A k \in 1..Len(df_export) :
            LET r  == df_export[k]
                in == SubsetsOf(r)
                ov == r["order_vendor"]
            IN  /\ "Braintree" \in in <=> IsDtc(r) /\ ~IsPaypal(r)
                /\ "PayPal" \in in <=> IsDtc(r) /\ IsPaypal(r)
                /\ "Uber" \in in <=> ov \in {"uber", "UBER"}
                /\ "Deliveroo" \in in <=> ov \in {"deliveroo", "Deliveroo"}
                /\ "Just Eat" \in in <=> ov \in {"just eat", "Just Eat", "justeat", "JUSTEAT"}
                /\ "Amazon" \in in <=> ov \in {"amazon uk", "Amazon UK"}

\* vendor_group "DTC" with payment_system "Paypal" is in the PayPal subset, and
\* order_vendor "JUSTEAT" is in the Just Eat subset.
C4_Witness ==
    /\ Partitioned
    /\ \E k \in 1..Len(df_export) :
          /\ df_export[k]["vendor_group"] = "DTC"
          /\ df_export[k]["payment_system"] = "Paypal"
          /\ df_export[k]["order_vendor"] = "JUSTEAT"
          /\ SubsetsOf(df_export[k]) = {"PayPal", "Just Eat"}

(***************************************************************************)
(* Helpers of the claim about the left join.                               *)
(***************************************************************************)
OrderCells(row) == [c \in OrderCellLabels |-> row[c]]

CountRows(rows, cells) ==
    Cardinality({k \in 1..Len(rows) : OrderCells(rows[k]) = cells})

(***************************************************************************)
(* C11: the left join keeps every order row exactly once: the merged table *)
(* has as many rows as the order table, and each order row occurs in it as *)
(* often as in the order table, also for an order without item rows, an    *)
(* order with several item rows and an order with several transactions.    *)
(***************************************************************************)
C11_EveryOrderRowOnce ==
    Called =>
        /\ Len(df_final.rows) = Len(df_orders.rows)
        /\ \A k \in 1..Len(df_orders.rows) :
              CountRows(df_final.rows, df_orders.rows[k]) =
                  CountRows(df_orders.rows, df_orders.rows[k])

\* Two order rows after the call: one of an order with two item rows, one of
\* an order with no item row, whose item columns are missing.
C11_Witness ==
    /\ Called
    /\ Len(df_orders.rows) = 2
    /\ Len(df_items_in) = 2
    /\ df_items_in[1].gp_order_id = df_items_in[2].gp_order_id
    /\ df_items_in[1].vat_band # df_items_in[2].vat_band
    /\ \E k \in 1..2 :
          /\ df_final.rows[k]["gp_order_id"] \notin IdsOf(df_items_in)
          /\ df_final.rows[k]["total_products"] = NaN
    /\ Len(df_final.rows) = 2

(***************************************************************************)
(* Helpers of the claims about the export loop.                            *)
(***************************************************************************)
\* The providers the loop of line 254 has dealt with.
Visited == {Providers[k] : k \in 1..(provider_index - 1)}

C13_EmptyIdsRaiseFirst ==
    /\ Range(id_column) \subseteq {None} => upc \in {"idle", "start", "error"}
    /\ upc = "error" =>
          /\ Range(id_column) \subseteq {None}
          /\ statements = <<>>
          /\ temp_order_ids = earlier_ids
          /\ batches = <<>>
          /\ queried = {}

\* A column of missing cells only, and the call ended in the error.
C13_Witness ==
    /\ upc = "error"
    /\ Len(id_column) >= 2
    /\ \A k \in 1..Len(id_column) : id_column[k] = None
    /\ statements = <<>>

(***************************************************************************)
(* P08_snowflake_connector: get_snowflake_credentials,                     *)
(* connect_to_snowflake, set_snowflake_context                             *)
(***************************************************************************)
DEFAULT_WAREHOUSE == "ANALYTICS"

DEFAULT_DATABASE == "DBT_PROD"

DEFAULT_SCHEMA == "CORE"

TIMEOUT_SECONDS == 20

\* Line 88.
default_email == "gerry.pidgeon@gopuff.com"

\* What SNOWFLAKE_USER may hold when the call begins, and what an operator
\* may type at a prompt.
EnvUsers == {Unset, "", " ", "ann@gopuff.com", " ann@gopuff.com "}

TypedUsers == {"", "bob@gopuff.com", " bob@gopuff.com "}

EnvOverrides(default) == {Unset, default, "OTHER_" \o default}

\* A strip() that removes nothing.
StripNothing(s) == s

\* str.strip() on the values of the model.
Strip(s) ==
    CASE s = " " -> ""
      [] s = " ann@gopuff.com " -> "ann@gopuff.com"
      [] s = " bob@gopuff.com " -> "bob@gopuff.com"
      [] OTHER -> s

\* os.getenv(name, default).
GetEnv(name, default) == IF environ[name] = Unset THEN default ELSE environ[name]

\* Line 161: the error text names an identity mismatch.
IsAnyError(err) == err \in {"mismatch", "error"}

IsIdentityMismatch(err) == err = "mismatch"

InitConnect ==
    /\ IdleUpload
    /\ IdleTransform
    /\ IdleExport
    /\ IdleGui
    /\ cpc = "start"
    /\ environ \in [{"SNOWFLAKE_USER", "SNOWFLAKE_WAREHOUSE", "SNOWFLAKE_DATABASE",
                    "SNOWFLAKE_SCHEMA"} -> EnvUsers \cup EnvOverrides(DEFAULT_WAREHOUSE)
                        \cup EnvOverrides(DEFAULT_DATABASE) \cup EnvOverrides(DEFAULT_SCHEMA)]
    /\ environ["SNOWFLAKE_USER"] \in EnvUsers
    /\ environ["SNOWFLAKE_WAREHOUSE"] \in EnvOverrides(DEFAULT_WAREHOUSE)
    /\ environ["SNOWFLAKE_DATABASE"] \in EnvOverrides(DEFAULT_DATABASE)
    /\ environ["SNOWFLAKE_SCHEMA"] \in EnvOverrides(DEFAULT_SCHEMA)
    /\ stored_user = ""
    /\ creds = NoCreds
    /\ source = "none"
    /\ thread = "none"
    /\ attempts = 0
    /\ prompts = <<>>
    /\ waited = 0
    /\ exit_reason = "none"
    /\ session = NoSession
    /\ connection = "none"
    /\ cursor = "none"
    /\ exported = "no"
    /\ earlier_thread \in {"none", "running"}
    /\ stdout = IF earlier_thread = "running" THEN "earlier buffer" ELSE "sink"
    /\ saved_stdout = "none"
    /\ notice = "none"

\* Lines 87-110 (called at line 137): the identity from SNOWFLAKE_USER, else
\* default_email, else a prompt; the other parameters from the environment.
GetSnowflakeCredentials ==
    /\ cpc = "start"
    /\ \E typed \in TypedUsers :
       LET stored == Strip(GetEnv("SNOWFLAKE_USER", ""))
           branch == IF stored # "" THEN "env"
                     ELSE IF default_email # "" THEN "default"
                     ELSE "prompt"
           user == CASE branch = "env" -> stored
                     [] branch = "default" -> default_email
                     [] branch = "prompt" -> Strip(typed)
       IN  /\ branch # "prompt" => typed = ""
           /\ stored_user' = stored
           /\ source' = branch
           /\ prompts' = IF branch = "prompt" THEN Append(prompts, "Email: ") ELSE prompts
           /\ environ' = IF branch = "env" THEN environ
                         ELSE [environ EXCEPT !["SNOWFLAKE_USER"] = user]
           /\ creds' = [user      |-> user,
                        warehouse |-> GetEnv("SNOWFLAKE_WAREHOUSE", DEFAULT_WAREHOUSE),
                        database  |-> GetEnv("SNOWFLAKE_DATABASE", DEFAULT_DATABASE),
                        schema    |-> GetEnv("SNOWFLAKE_SCHEMA", DEFAULT_SCHEMA)]
    /\ cpc' = "thread"
    /\ UNCHANGED <<thread, attempts, waited, exit_reason, session>>
    /\ UNCHANGED <<connection, cursor, exported>>
    /\ UNCHANGED <<stdout, saved_stdout, notice, earlier_thread>>
    /\ UNCHANGED notConnect

\* Lines 151-153: the _connect thread is started and the caller joins it.
StartThread ==
    /\ cpc = "thread"
    /\ thread' = "running"
    /\ attempts' = attempts + 1
    /\ waited' = 0
    /\ cpc' = "join"
    /\ UNCHANGED <<environ, stored_user, creds, source, prompts, exit_reason, session>>
    /\ UNCHANGED <<connection, cursor, exported>>
    /\ UNCHANGED <<stdout, saved_stdout, notice, earlier_thread>>
    /\ UNCHANGED notConnect

\* Lines 142-147, in the thread: the attempt ends, with a connection or with an
\* error kept in conn_container. The thread goes on after a timeout of the join.
ThreadConnectEnds ==
    /\ thread = "running"
    /\ saved_stdout # "none"
    /\ thread' \in {"conn", "mismatch", "error"}
    /\ connection' = IF thread' = "conn" THEN "open" ELSE connection
    /\ UNCHANGED <<cursor, exported>>
    /\ UNCHANGED <<cpc, environ, stored_user, creds, source, attempts, prompts, waited, exit_reason,
                   session>>
    /\ stdout' = saved_stdout
    /\ UNCHANGED <<saved_stdout, notice, earlier_thread>>
    /\ UNCHANGED notConnect

\* Line 153: time passes while the caller is in join(timeout=TIMEOUT_SECONDS).
JoinWaits ==
    /\ cpc = "join"
    /\ thread = "running"
    /\ waited < TIMEOUT_SECONDS
    /\ waited' = waited + 1
    /\ UNCHANGED <<cpc, environ, stored_user, creds, source, thread, attempts, prompts, exit_reason,
                   session>>
    /\ UNCHANGED <<connection, cursor, exported>>
    /\ UNCHANGED <<stdout, saved_stdout, notice, earlier_thread>>
    /\ UNCHANGED notConnect

\* Lines 153-157: the join timed out and the thread is alive: sys.exit(1).
JoinTimesOut ==
    /\ cpc = "join"
    /\ thread = "running"
    /\ waited = TIMEOUT_SECONDS
    /\ exit_reason' = "timeout"
    /\ cpc' = "exited"
    /\ UNCHANGED <<environ, stored_user, creds, source, thread, attempts, prompts, waited, session>>
    /\ UNCHANGED <<connection, cursor, exported>>
    /\ notice' = stdout
    /\ UNCHANGED <<stdout, saved_stdout, earlier_thread>>
    /\ UNCHANGED notConnect

\* Lines 171-175: the thread left a connection; its session has the context of
\* the credentials.
FirstAttemptConnected ==
    /\ cpc = "join"
    /\ thread = "conn"
    /\ session' = [warehouse |-> creds.warehouse, database |-> creds.database,
                   schema |-> creds.schema]
    /\ cpc' = "connected"
    /\ UNCHANGED <<environ, stored_user, creds, source, thread, attempts, prompts, waited, exit_reason>>
    /\ UNCHANGED <<connection, cursor, exported>>
    /\ UNCHANGED <<stdout, saved_stdout, notice, earlier_thread>>
    /\ UNCHANGED notConnect

\* Lines 159-166: an identity mismatch: the operator is asked for the identity,
\* which goes to SNOWFLAKE_USER and to the credentials.
PromptAfterMismatch ==
    /\ cpc = "join"
    /\ thread \in {"mismatch", "error"}
    /\ IsIdentityMismatch(thread)
    /\ \E typed \in TypedUsers :
          /\ environ' = [environ EXCEPT !["SNOWFLAKE_USER"] = Strip(typed)]
          /\ creds' = [creds EXCEPT !.user = Strip(typed)]
    /\ prompts' = Append(prompts, "Please enter your correct GoPuff email address: ")
    /\ cpc' = "retry"
    /\ UNCHANGED <<stored_user, source, thread, attempts, waited, exit_reason, session>>
    /\ UNCHANGED <<connection, cursor, exported>>
    /\ UNCHANGED <<stdout, saved_stdout, notice, earlier_thread>>
    /\ UNCHANGED notConnect

\* Lines 168-170: any other error: sys.exit(1).
FirstAttemptFailed ==
    /\ cpc = "join"
    /\ thread \in {"mismatch", "error"}
    /\ ~IsIdentityMismatch(thread)
    /\ exit_reason' = "connection failed"
    /\ cpc' = "exited"
    /\ UNCHANGED <<environ, stored_user, creds, source, thread, attempts, prompts, waited, session>>
    /\ UNCHANGED <<connection, cursor, exported>>
    /\ UNCHANGED <<stdout, saved_stdout, notice, earlier_thread>>
    /\ UNCHANGED notConnect

\* Line 167: the second attempt is a direct call in the caller's thread.
RetryBegins ==
    /\ cpc = "retry"
    /\ attempts' = attempts + 1
    /\ waited' = 0
    /\ cpc' = "retrying"
    /\ UNCHANGED <<environ, stored_user, creds, source, thread, prompts, exit_reason, session>>
    /\ UNCHANGED <<connection, cursor, exported>>
    /\ UNCHANGED <<stdout, saved_stdout, notice, earlier_thread>>
    /\ UNCHANGED notConnect

\* Line 167: time passes while the caller is inside the second attempt; nothing
\* in the call limits it.
RetryWaits ==
    /\ cpc = "retrying"
    /\ waited < TIMEOUT_SECONDS + MaxOverrun
    /\ waited' = waited + 1
    /\ UNCHANGED <<cpc, environ, stored_user, creds, source, thread, attempts, prompts, exit_reason,
                   session>>
    /\ UNCHANGED <<connection, cursor, exported>>
    /\ UNCHANGED <<stdout, saved_stdout, notice, earlier_thread>>
    /\ UNCHANGED notConnect

\* Lines 167, 174-175: the second attempt gave a connection.
RetryConnected ==
    /\ cpc = "retrying"
    /\ session' = [warehouse |-> creds.warehouse, database |-> creds.database,
                   schema |-> creds.schema]
    /\ connection' = "open"
    /\ cpc' = "connected"
    /\ UNCHANGED <<cursor, exported>>
    /\ UNCHANGED <<environ, stored_user, creds, source, thread, attempts, prompts, waited, exit_reason>>
    /\ UNCHANGED <<stdout, saved_stdout, notice, earlier_thread>>
    /\ UNCHANGED notConnect

\* Line 167: the second attempt raised; the exception leaves connect_to_snowflake.
RetryFailed ==
    /\ cpc = "retrying"
    /\ exit_reason' = "retry raised"
    /\ cpc' = "raised"
    /\ UNCHANGED <<environ, stored_user, creds, source, thread, attempts, prompts, waited, session>>
    /\ UNCHANGED <<connection, cursor, exported>>
    /\ UNCHANGED <<stdout, saved_stdout, notice, earlier_thread>>
    /\ UNCHANGED notConnect

\* Line 216 of main(), lines 201-221: set_snowflake_context(conn) with the
\* default arguments of line 181.
SetSnowflakeContext ==
    /\ cpc = "connected"
    /\ session' = [warehouse |-> DEFAULT_WAREHOUSE, database |-> DEFAULT_DATABASE,
                   schema |-> DEFAULT_SCHEMA]
    /\ cursor' = "closed"
    /\ cpc' = "context set"
    /\ UNCHANGED <<connection, exported>>
    /\ UNCHANGED <<environ, stored_user, creds, source, thread, attempts, prompts, waited, exit_reason>>
    /\ UNCHANGED <<stdout, saved_stdout, notice, earlier_thread>>
    /\ UNCHANGED notConnect

\* Lines 203-210: USE WAREHOUSE raised: the warehouses are listed, sys.exit(1).
WarehouseInvalid ==
    /\ cpc = "connected"
    /\ exit_reason' = "invalid warehouse"
    /\ cursor' = "open"
    /\ cpc' = "exited"
    /\ UNCHANGED <<connection, exported>>
    /\ UNCHANGED <<environ, stored_user, creds, source, thread, attempts, prompts, waited, session>>
    /\ UNCHANGED <<stdout, saved_stdout, notice, earlier_thread>>
    /\ UNCHANGED notConnect

\* _connect line 142: the attempt thread enters the redirection, which saves
\* the process-wide sys.stdout and puts the thread's buffer in its place.
ThreadEntersRedirect ==
    /\ thread = "running"
    /\ saved_stdout = "none"
    /\ saved_stdout' = stdout
    /\ stdout' = "buffer"
    /\ UNCHANGED <<cpc, environ, stored_user, creds, source, thread, attempts, prompts, waited,
                   exit_reason, session, connection, cursor, exported, notice,
                   earlier_thread>>
    /\ UNCHANGED notConnect

\* _connect line 142 in the thread of the earlier run: it leaves the
\* redirection and puts back the sys.stdout it saved, the operator's sink.
EarlierThreadEnds ==
    /\ earlier_thread = "running"
    /\ earlier_thread' = "ended"
    /\ stdout' = "sink"
    /\ UNCHANGED <<cpc, environ, stored_user, creds, source, thread, attempts, prompts, waited,
                   exit_reason, session, connection, cursor, exported, saved_stdout, notice>>
    /\ UNCHANGED notConnect

\* main() lines 219-220: the two extractors return.
MainExtracts ==
    /\ cpc = "context set"
    /\ cpc' = "extracted"
    /\ UNCHANGED <<environ, stored_user, creds, source, thread, attempts, prompts, waited,
                   exit_reason, session, connection, cursor, exported>>
    /\ UNCHANGED <<stdout, saved_stdout, notice, earlier_thread>>
    /\ UNCHANGED notConnect

\* main() lines 219-220: an extractor raises (the query fails, or line 101).
MainExtractorRaises ==
    /\ cpc = "context set"
    /\ exit_reason' \in {"query error", "empty identifier set"}
    /\ cpc' = "raised"
    /\ UNCHANGED <<environ, stored_user, creds, source, thread, attempts, prompts, waited,
                   session, connection, cursor, exported>>
    /\ UNCHANGED <<stdout, saved_stdout, notice, earlier_thread>>
    /\ UNCHANGED notConnect

\* main() line 223: transform_item_data returns.
MainTransforms ==
    /\ cpc = "extracted"
    /\ cpc' = "transformed"
    /\ UNCHANGED <<environ, stored_user, creds, source, thread, attempts, prompts, waited,
                   exit_reason, session, connection, cursor, exported>>
    /\ UNCHANGED <<stdout, saved_stdout, notice, earlier_thread>>
    /\ UNCHANGED notConnect

\* main() line 223: transform_item_data raises (line 192).
MainTransformRaises ==
    /\ cpc = "extracted"
    /\ exit_reason' = "schema mismatch"
    /\ cpc' = "raised"
    /\ UNCHANGED <<environ, stored_user, creds, source, thread, attempts, prompts, waited,
                   session, connection, cursor, exported>>
    /\ UNCHANGED <<stdout, saved_stdout, notice, earlier_thread>>
    /\ UNCHANGED notConnect

\* main() line 226: conn.close().
Close(state) == "closed"

MainClosesConnection ==
    /\ cpc = "transformed"
    /\ connection' = Close(connection)
    /\ cpc' = "closed"
    /\ UNCHANGED <<environ, stored_user, creds, source, thread, attempts, prompts, waited,
                   exit_reason, session, cursor, exported>>
    /\ UNCHANGED <<stdout, saved_stdout, notice, earlier_thread>>
    /\ UNCHANGED notConnect

\* main() lines 232-266: the provider files are written and main() returns.
MainExports ==
    /\ cpc = "closed"
    /\ exported' = connection
    /\ cpc' = "done"
    /\ UNCHANGED <<environ, stored_user, creds, source, thread, attempts, prompts, waited,
                   exit_reason, session, connection, cursor>>
    /\ UNCHANGED <<stdout, saved_stdout, notice, earlier_thread>>
    /\ UNCHANGED notConnect

NextConnect ==
    \/ GetSnowflakeCredentials
    \/ StartThread
    \/ ThreadEntersRedirect
    \/ EarlierThreadEnds
    \/ ThreadConnectEnds
    \/ JoinWaits
    \/ JoinTimesOut
    \/ FirstAttemptConnected
    \/ PromptAfterMismatch
    \/ FirstAttemptFailed
    \/ RetryBegins
    \/ RetryWaits
    \/ RetryConnected
    \/ RetryFailed
    \/ SetSnowflakeContext
    \/ WarehouseInvalid
    \/ MainExtracts
    \/ MainExtractorRaises
    \/ MainTransforms
    \/ MainTransformRaises
    \/ MainClosesConnection
    \/ MainExports

SpecConnect == InitConnect /\ [][NextConnect]_vars

(***************************************************************************)
(* Helpers of the claims about the connection.                             *)
(***************************************************************************)
Reprompts ==
    Cardinality({k \in 1..Len(prompts) :
                    prompts[k] = "Please enter your correct GoPuff email address: "})

(***************************************************************************)
(* C14: an identity mismatch of the first attempt leads to one re-prompt   *)
(* and one further attempt; a failure of the second attempt ends the call  *)
(* with its error, without a third attempt or a second prompt; any other   *)
(* failure of the first attempt, and a timeout, lead to no retry. One call *)
(* makes at most two connection attempts.                                  *)
(***************************************************************************)
C14_AtMostOneRetry ==
    /\ attempts <= 2
    /\ Reprompts <= 1
    /\ Reprompts = 1 => thread = "mismatch" /\ exit_reason # "timeout"
    /\ attempts = 2 => Reprompts = 1
    /\ cpc \in {"connected", "context set"} /\ thread = "mismatch" => attempts = 2
    /\ exit_reason = "timeout" => attempts = 1 /\ Reprompts = 0 /\ cpc = "exited"
    /\ exit_reason = "connection failed" =>
          attempts = 1 /\ Reprompts = 0 /\ thread = "error" /\ cpc = "exited"
    /\ exit_reason = "retry raised" => attempts = 2 /\ Reprompts = 1 /\ cpc = "raised"

\* The first attempt ended in an identity mismatch, the operator was asked
\* once, and the second attempt failed, which ended the call.
C14_Witness ==
    /\ cpc = "raised"
    /\ thread = "mismatch"
    /\ attempts = 2
    /\ Reprompts = 1

(***************************************************************************)
(* C15: every connection attempt of connect_to_snowflake, the retry after  *)
(* an identity mismatch included, is bounded by the timeout: the caller is *)
(* never blocked on an attempt for longer than TIMEOUT_SECONDS.            *)
(***************************************************************************)
C15_EveryAttemptBounded ==
    cpc \in {"join", "retrying"} => waited <= TIMEOUT_SECONDS

(***************************************************************************)
(* C19: after connect_to_snowflake and set_snowflake_context, each of      *)
(* warehouse, database and schema of the session is the value of its       *)
(* environment variable when that is set, and the default otherwise.       *)
(***************************************************************************)
C19_EnvOverrideInEffect ==
    cpc = "context set" =>
        /\ session.warehouse = GetEnv("SNOWFLAKE_WAREHOUSE", DEFAULT_WAREHOUSE)
        /\ session.database = GetEnv("SNOWFLAKE_DATABASE", DEFAULT_DATABASE)
        /\ session.schema = GetEnv("SNOWFLAKE_SCHEMA", DEFAULT_SCHEMA)

DefaultPeriod == [start |-> "2026-10-01", end |-> "2026-10-31"]

\* What the operator has selected and typed when the trigger is pressed.
EmailChoices == {"gerry", "dimitrios", "custom"}

CustomEmails == {"", "carol@gopuff.com"}

\* The override text: empty, two integers year-month, or anything else.
OverrideTexts ==
    {[kind |-> "empty", year |-> 0, month |-> 0],
     [kind |-> "malformed", year |-> 0, month |-> 0]}
        \cup {[kind |-> "year-month", year |-> y, month |-> m] :
                 y \in {2024, 25}, m \in {2, 10, 13}}

\* calendar.monthrange(year, month)[1].
LastDay(year, month) ==
    IF month = 2
    THEN IF (year % 4 = 0 /\ year % 100 # 0) \/ year % 400 = 0 THEN 29 ELSE 28
    ELSE IF month \in {4, 6, 9, 11} THEN 30 ELSE 31

\* The format spec :02d.
TwoDigits(n) == IF n < 10 THEN "0" \o ToString(n) ELSE ToString(n)

\* Lines 217-231: the period of the run, or "invalid" when line 220 or line
\* 222 raises.
ResolvePeriod(override) ==
    IF override.kind = "empty" THEN DefaultPeriod
    ELSE IF override.kind = "malformed" \/ override.month \notin 1..12
         THEN [start |-> "invalid", end |-> "invalid"]
    ELSE [start |-> ToString(override.year) \o "-" \o TwoDigits(override.month) \o "-01",
          end   |-> ToString(override.year) \o "-" \o TwoDigits(override.month) \o "-"
                        \o TwoDigits(LastDay(override.year, override.month))]

\* Lines 201-207.
SelectedEmail(choice, custom) ==
    CASE choice = "gerry" -> "gerry.pidgeon@gopuff.com"
      [] choice = "dimitrios" -> "dimitrios.kakkavas@gopuff.com"
      [] OTHER -> Strip(custom)

\* messagebox is not a name of the module: P00_set_packages imports tkinter as
\* tk and ttk only, so every messagebox.showerror raises NameError and shows
\* nothing.
MessageboxShowerror(message) == [raised |-> "NameError", shown |-> <<>>]

\* A button whose state is never looked at.
TriggerAlwaysEnabled == TRUE

\* Line 137, 197: a disabled button does not call its command.
TriggerEnabled == run_button = "normal"

\* A period that has not been read yet.
NoPeriod == [start |-> "", end |-> ""]

NewWorker(period) ==
    [pc |-> "started", chosen |-> period, query_period |-> NoPeriod,
     label_period |-> NoPeriod,
     outcome |-> "running", died_of |-> "none"]

InFlight == {k \in 1..Len(workers) : workers[k].pc # "ended"}

InMain == {k \in 1..Len(workers) :
              workers[k].pc \in {"started", "connected", "queried", "transformed"}}

InitGui ==
    /\ IdleUpload
    /\ IdleTransform
    /\ IdleExport
    /\ IdleConnect
    /\ IdleGui

\* Lines 195-211: custom is selected and the text is empty. Line 209 raises
\* NameError, which leaves run_extraction before line 210.
RunExtractionEmptyEmail ==
    /\ TriggerEnabled
    /\ triggers < MaxTriggers
    /\ \E custom \in CustomEmails :
          /\ SelectedEmail("custom", custom) = ""
          /\ LET box == MessageboxShowerror("Please enter a custom email address.")
             IN  /\ dialogs' = dialogs \o box.shown
                 /\ callback_errors' = Append(callback_errors, box.raised)
                 /\ run_button' = IF box.raised = "none" THEN "normal" ELSE "disabled"
    /\ triggers' = triggers + 1
    /\ UNCHANGED <<cfg, workers, environ>>
    /\ UNCHANGED notGui

\* Lines 195-228: the identity is accepted and written to SNOWFLAKE_USER, the
\* override does not parse. Line 226 raises NameError before line 227.
RunExtractionInvalidMonth ==
    /\ TriggerEnabled
    /\ triggers < MaxTriggers
    /\ \E choice \in EmailChoices, custom \in CustomEmails, override \in OverrideTexts :
          /\ SelectedEmail(choice, custom) # ""
          /\ ResolvePeriod(override).start = "invalid"
          /\ environ' = [environ EXCEPT !["SNOWFLAKE_USER"] = SelectedEmail(choice, custom)]
          /\ LET box == MessageboxShowerror("Invalid month format. Please use YYYY-MM.")
             IN  /\ dialogs' = dialogs \o box.shown
                 /\ callback_errors' = Append(callback_errors, box.raised)
                 /\ run_button' = IF box.raised = "none" THEN "normal" ELSE "disabled"
    /\ triggers' = triggers + 1
    /\ UNCHANGED <<cfg, workers>>
    /\ UNCHANGED notGui

\* Lines 195-242: the input is accepted: the trigger is disabled, the identity
\* and the period are written, the worker thread is started.
RunExtractionStartsWorker ==
    /\ TriggerEnabled
    /\ triggers < MaxTriggers
    /\ \E choice \in EmailChoices, custom \in CustomEmails, override \in OverrideTexts :
          /\ SelectedEmail(choice, custom) # ""
          /\ ResolvePeriod(override).start # "invalid"
          /\ environ' = [environ EXCEPT !["SNOWFLAKE_USER"] = SelectedEmail(choice, custom)]
          /\ cfg' = ResolvePeriod(override)
          /\ workers' = Append(workers, NewWorker(ResolvePeriod(override)))
    /\ run_button' = "disabled"
    /\ triggers' = triggers + 1
    /\ UNCHANGED <<callback_errors, dialogs>>
    /\ UNCHANGED notGui

\* main() lines 215-216 in a worker: connect_to_snowflake and
\* set_snowflake_context return, end the thread by sys.exit(1), or raise.
WorkerConnects ==
    \E k \in 1..Len(workers) :
        /\ workers[k].pc = "started"
        /\ \E o \in {"ok", "authentication timeout", "connection failure",
                     "invalid warehouse", "retry raised"} :
              workers' = [workers EXCEPT ![k] =
                  CASE o = "ok" -> [@ EXCEPT !.pc = "connected"]
                    [] o = "retry raised" -> [@ EXCEPT !.pc = "raising", !.outcome = o]
                    [] OTHER -> [@ EXCEPT !.pc = "exiting", !.outcome = o]]
        /\ UNCHANGED <<run_button, cfg, triggers, callback_errors, dialogs, environ>>
        /\ UNCHANGED notGui

\* main() line 219, run_order_level_query lines 58-72: the period is read and
\* the query runs or raises.
WorkerRunsOrderQuery ==
    \E k \in 1..Len(workers) :
        /\ workers[k].pc = "connected"
        /\ \E o \in {"ok", "query error"} :
              workers' = [workers EXCEPT ![k] =
                  IF o = "ok" THEN [@ EXCEPT !.pc = "queried", !.query_period = cfg]
                  ELSE [@ EXCEPT !.pc = "raising", !.outcome = o, !.query_period = cfg]]
        /\ UNCHANGED <<run_button, cfg, triggers, callback_errors, dialogs, environ>>
        /\ UNCHANGED notGui

\* main() lines 220-226: the item query and transform_item_data return or raise.
WorkerTransforms ==
    \E k \in 1..Len(workers) :
        /\ workers[k].pc = "queried"
        /\ \E o \in {"ok", "empty identifier set", "query error", "schema mismatch"} :
              workers' = [workers EXCEPT ![k] =
                  IF o = "ok" THEN [@ EXCEPT !.pc = "transformed"]
                  ELSE [@ EXCEPT !.pc = "raising", !.outcome = o]]
        /\ UNCHANGED <<run_button, cfg, triggers, callback_errors, dialogs, environ>>
        /\ UNCHANGED notGui

\* main() lines 232-266: the period is read for the file name and the export
\* loop returns or raises.
WorkerExports ==
    \E k \in 1..Len(workers) :
        /\ workers[k].pc = "transformed"
        /\ \E o \in {"ok", "write failed"} :
              workers' = [workers EXCEPT ![k] =
                  IF o = "ok" THEN [@ EXCEPT !.pc = "returned", !.label_period = cfg,
                                              !.outcome = "completed"]
                  ELSE [@ EXCEPT !.pc = "raising", !.outcome = o, !.label_period = cfg]]
        /\ UNCHANGED <<run_button, cfg, triggers, callback_errors, dialogs, environ>>
        /\ UNCHANGED notGui

\* Lines 252, 256-257: main() returned; the trigger is enabled again.
ExecuteMainCompletes ==
    \E k \in 1..Len(workers) :
        /\ workers[k].pc = "returned"
        /\ workers' = [workers EXCEPT ![k].pc = "ended"]
        /\ run_button' = "normal"
        /\ UNCHANGED <<cfg, triggers, callback_errors, dialogs, environ>>
        /\ UNCHANGED notGui

\* Lines 253-257: main() raised an Exception: it is logged, line 255 raises
\* NameError, the finally clause enables the trigger, the thread dies.
ExecuteMainCatches ==
    \E k \in 1..Len(workers) :
        /\ workers[k].pc = "raising"
        /\ LET box == MessageboxShowerror(workers[k].outcome)
           IN  /\ dialogs' = dialogs \o box.shown
               /\ workers' = [workers EXCEPT ![k].pc = "ended", ![k].died_of = box.raised]
        /\ run_button' = "normal"
        /\ UNCHANGED <<cfg, triggers, callback_errors, environ>>
        /\ UNCHANGED notGui

\* Lines 253, 256-257: sys.exit(1) in main() raised SystemExit, which is not an
\* Exception: only the finally clause runs and the thread ends.
ExecuteMainExits ==
    \E k \in 1..Len(workers) :
        /\ workers[k].pc = "exiting"
        /\ workers' = [workers EXCEPT ![k].pc = "ended", ![k].died_of = "SystemExit"]
        /\ run_button' = "normal"
        /\ UNCHANGED <<cfg, triggers, callback_errors, dialogs, environ>>
        /\ UNCHANGED notGui

NextGui ==
    \/ RunExtractionEmptyEmail
    \/ RunExtractionInvalidMonth
    \/ RunExtractionStartsWorker
    \/ WorkerConnects
    \/ WorkerRunsOrderQuery
    \/ WorkerTransforms
    \/ WorkerExports
    \/ ExecuteMainCompletes
    \/ ExecuteMainCatches
    \/ ExecuteMainExits

SpecGui == InitGui /\ [][NextGui]_vars

(***************************************************************************)
(* C16: the trigger is disabled for the whole time a run is in flight, at  *)
(* most one worker thread executes main() at any time, and the trigger is  *)
(* enabled again once no run is in flight, after any sequence of trigger   *)
(* actions, validation failures, run completions and run failures.         *)
(***************************************************************************)
C16_OneRunAndReenabled ==
    /\ Cardinality(InMain) <= 1
    /\ InFlight # {} => run_button = "disabled"
    /\ InFlight = {} => run_button = "normal"

\* The part of C16 that the code keeps: one worker at most, and the trigger
\* disabled while it runs.
C16_OneRunAtATime ==
    /\ Cardinality(InFlight) <= 1
    /\ InFlight # {} => run_button = "disabled"

(***************************************************************************)
(* C17: every fatal condition of a run on the UI path (empty identifier    *)
(* set, schema mismatch, query error, authentication timeout, connection   *)
(* failure, invalid warehouse) ends with the trigger enabled again and an  *)
(* error dialog shown; no fatal condition ends the worker silently.        *)
(***************************************************************************)
C17_FatalShowsDialog ==
    \A k \in 1..Len(workers) :
        workers[k].pc = "ended" /\ workers[k].outcome # "completed" =>
            /\ \E d \in 1..Len(dialogs) : dialogs[d] = workers[k].outcome
            /\ k = Len(workers) /\ callback_errors = <<>> => run_button = "normal"

\* The part of C17 that the code keeps: the finally clause enables the trigger
\* when a run has ended, whatever ended it.
C17_TriggerReenabled ==
    \A k \in 1..Len(workers) :
        workers[k].pc = "ended" /\ k = Len(workers) /\ callback_errors = <<>> =>
            run_button = "normal"

(***************************************************************************)
(* C18: the period is written to the shared configuration before the       *)
(* worker starts and not again until the run has ended: within one run the *)
(* period read for the order-level query and the period read for the file  *)
(* name are the same and are the period chosen for that run.               *)
(***************************************************************************)
C18_PeriodStableInRun ==
    \A k \in 1..Len(workers) :
        /\ workers[k].query_period \in {NoPeriod, workers[k].chosen}
        /\ workers[k].label_period \in {NoPeriod, workers[k].chosen}
        /\ k \in InFlight => cfg = workers[k].chosen

\* Two runs with different periods, each of which read its own period at both
\* calls of get_reporting_period.
C18_Witness ==
    /\ Len(workers) = 2
    /\ workers[1].chosen # workers[2].chosen
    /\ \A k \in 1..2 :
          /\ workers[k].query_period = workers[k].chosen
          /\ workers[k].label_period = workers[k].chosen
    /\ workers[2].chosen = [start |-> "2024-02-01", end |-> "2024-02-29"]

(***************************************************************************)
(* Helpers of the claim about the period strings.                          *)
(***************************************************************************)
\* A year written with four digits, as ISO 8601 has it.
FourDigits(n) ==
    IF n < 10 THEN "000" \o ToString(n)
    ELSE IF n < 100 THEN "00" \o ToString(n)
    ELSE IF n < 1000 THEN "0" \o ToString(n)
    ELSE ToString(n)

IsoPeriod(year, month) ==
    [start |-> FourDigits(year) \o "-" \o TwoDigits(month) \o "-01",
     end   |-> FourDigits(year) \o "-" \o TwoDigits(month) \o "-"
                   \o TwoDigits(LastDay(year, month))]

(***************************************************************************)
(* C21: whatever period the UI accepts, the default or an override that    *)
(* passes validation, get_reporting_period afterwards returns two strings  *)
(* YYYY-MM-DD with a four-digit year, the first and the last day of the    *)
(* chosen month.                                                           *)
(***************************************************************************)
C21_IsoPeriodStrings ==
    /\ Len(cfg.start) = 10
    /\ Len(cfg.end) = 10
    /\ cfg \in {StaticPeriod, DefaultPeriod}
                  \cup {IsoPeriod(o.year, o.month) :
                           o \in {t \in OverrideTexts : t.kind = "year-month"}}

(***************************************************************************)
(* C22: in every run of run_item_level_query the temporary table is        *)
(* recreated empty before the first insert, so when the item query is      *)
(* executed the table holds exactly the distinct non-missing identifiers   *)
(* of the current order table, whatever earlier runs on the connection     *)
(* left in it.                                                             *)
(***************************************************************************)
C22_TableIsCurrentIds ==
    /\ upc = "loop" =>
          /\ statements[1] = "CREATE OR REPLACE TEMP TABLE"
          /\ temp_order_ids = Flatten(batches)
    /\ upc = "done" =>
          /\ statements[1] = "CREATE OR REPLACE TEMP TABLE"
          /\ statements[Len(statements)] = "SELECT"
          /\ temp_order_ids = gp_order_ids
          /\ queried = Range(id_column) \ {None}
          /\ Cardinality(queried) = Len(temp_order_ids)

\* An earlier run left identifier C in the table, the current order table does
\* not have it, and the item query ran without it.
C22_Witness ==
    /\ upc = "done"
    /\ "C" \in Range(earlier_ids)
    /\ "C" \notin Range(id_column)
    /\ "C" \notin queried
    /\ queried # {}

(***************************************************************************)
(* Helpers of the claim about the progress reports.                        *)
(***************************************************************************)
\* The identifiers inserted by the first k batches.
InsertedAfter(k) == Len(Flatten(SubSeq(batches, 1, k)))

(***************************************************************************)
(* C23: a progress value is reported after every chunk; it is the number   *)
(* of identifiers inserted so far, increases strictly from chunk to chunk, *)
(* never exceeds the total and is the total after the last chunk; the item *)
(* query is executed only after the last chunk has been inserted.          *)
(***************************************************************************)
C23_ProgressIsInsertedCount ==
    /\ Len(reported) = Len(batches)
    /\ \A k \in 1..Len(reported) :
          /\ reported[k] = InsertedAfter(k)
          /\ reported[k] <= Len(gp_order_ids)
          /\ k > 1 => reported[k] > reported[k - 1]
          /\ k = 1 => reported[k] > 0
    /\ "SELECT" \in Range(statements) =>
          /\ reported # <<>>
          /\ reported[Len(reported)] = Len(gp_order_ids)
          /\ statements[Len(statements)] = "SELECT"
          /\ \A k \in 1..(Len(statements) - 1) : statements[k] # "SELECT"
          /\ Len(statements) = Len(batches) + 2

\* Two chunks were reported, the last one short, and the item query ran.
C23_Witness ==
    /\ upc = "done"
    /\ Len(reported) = 2
    /\ reported[2] = Len(gp_order_ids)
    /\ reported[2] - reported[1] < chunk_size
    /\ statements[Len(statements)] = "SELECT"

(***************************************************************************)
(* C24: the rows of the table transform_item_data has sorted are ordered   *)
(* by (order identifier, transaction index) ascending: from one row to the *)
(* next the identifier does not decrease, and within one identifier the    *)
(* transaction index does not decrease, the rows whose index is missing    *)
(* coming after those of the same order that have one. The sorted table    *)
(* has the rows of the order table, each as often.                         *)
(***************************************************************************)
C24_SortedByIdAndIndex ==
    Called =>
        /\ \A k \in 1..(Len(df_final.rows) - 1) :
              LET a == df_final.rows[k]
                  b == df_final.rows[k + 1]
              IN  /\ IdKey(a) <= IdKey(b)
                  /\ a["gp_order_id"] = b["gp_order_id"] =>
                        /\ TxMissing(a) => TxMissing(b)
                        /\ ~TxMissing(a) /\ ~TxMissing(b) =>
                              a["braintree_tx_index"][1] <= b["braintree_tx_index"][1]
        /\ \A k \in 1..Len(df_orders.rows) :
              CountRows(df_final.rows, df_orders.rows[k]) =
                  CountRows(df_orders.rows, df_orders.rows[k])

\* The order table had the row of order A without an index before its row of
\* index 1; the sorted table has them the other way round.
C24_Witness ==
    /\ Called
    /\ Len(df_orders.rows) = 2
    /\ df_orders.rows[1]["gp_order_id"] = "A"
    /\ df_orders.rows[1]["braintree_tx_index"] = NaN
    /\ df_orders.rows[2]["gp_order_id"] = "A"
    /\ df_orders.rows[2]["braintree_tx_index"] = Num(1)
    /\ df_final.rows[1]["braintree_tx_index"] = Num(1)
    /\ df_final.rows[2]["braintree_tx_index"] = NaN

(***************************************************************************)
(* C25: when the write of a provider's file fails, the run ends at that    *)
(* provider: the files of the non-empty providers before it in the order   *)
(* Braintree, PayPal, Uber, Deliveroo, Just Eat, Amazon are written with   *)
(* their rows, no file of a later provider is written, and no step of the  *)
(* run removes or changes a file that was written.                         *)
(***************************************************************************)
C25_AbortsAtFailedProvider ==
    /\ [](xpc = "failed" =>
             /\ \A k \in 1..(provider_index - 1) :
                   /\ Providers[k] \in DOMAIN files <=> subsets[Providers[k]] # <<>>
                   /\ Providers[k] \in DOMAIN files =>
                         files[Providers[k]] = subsets[Providers[k]]
             /\ \A k \in (provider_index + 1)..Len(Providers) :
                   Providers[k] \notin DOMAIN files)
    /\ [][/\ \A p \in DOMAIN files : p \in DOMAIN files' /\ files'[p] = files[p]
          /\ xpc = "failed" => xpc' = "failed" /\ files' = files]_vars

\* The write of the Uber file failed after the Braintree file was written: the
\* Braintree file is there with its row, and a later provider has none.
C25_Witness ==
    /\ xpc = "failed"
    /\ Providers[provider_index] = "Uber"
    /\ "Braintree" \in DOMAIN files
    /\ files["Braintree"] = subsets["Braintree"]
    /\ files["Braintree"] # <<>>
    /\ \A k \in (provider_index + 1)..Len(Providers) : Providers[k] \notin DOMAIN files

\* C26: when connect_to_snowflake or set_snowflake_context ends the process,
\* no connection or cursor of the run is open and no attempt thread is
\* running.  The code exits on a timeout while the attempt thread is alive
\* (lines 155-157) and on an invalid warehouse with the connection and the
\* cursor open (lines 204-210).
C26_NoPartialState ==
    cpc = "exited" =>
        /\ connection # "open"
        /\ cursor # "open"
        /\ thread # "running"

\* C27: when main() ends after connect_to_snowflake returned a connection,
\* the connection has been closed, and no provider file is written while it
\* is open.  The only close is line 226, on the path without an error.
C27_ClosedWhenMainEnds ==
    /\ (cpc = "done" \/ exit_reason \in {"invalid warehouse", "query error",
                                         "empty identifier set", "schema mismatch"})
        => connection = "closed"
    /\ exported # "open"

\* Supporting C27: the part of the statement the code keeps, files are
\* written only after the connection was closed.
C27_FilesAfterClose ==
    exported \in {"no", "closed"}

\* C28: the standard output replaced by an attempt's output suppression is
\* always put back: with no attempt thread running, sys.stdout is the
\* operator's sink, and the timeout notice reaches that sink.  The notice of
\* line 156 is printed while the attempt thread is inside its redirection,
\* and two overlapping attempts put back each other's buffer.
C28_StdoutPutBack ==
    /\ (thread # "running" /\ earlier_thread # "running") => stdout = "sink"
    /\ notice \in {"none", "sink"}

\* Supporting C28: the first half alone, the sink is back whenever no attempt
\* thread runs.
C28_SinkWhenNoThread ==
    (thread # "running" /\ earlier_thread # "running") => stdout = "sink"

\* Supporting C28: the second half alone, the timeout notice reaches the sink.
C28_NoticeReachesSink ==
    notice \in {"none", "sink"}

(***************************************************************************)
(* C29: when run_extraction rejects its input, no worker is started, the   *)
(* trigger is re-enabled, and SNOWFLAKE_USER and the configured reporting  *)
(* dates keep the values they had.  The code writes SNOWFLAKE_USER at line *)
(* 213, before the month is validated, and the NameError of lines 209 and  *)
(* 226 leaves the trigger disabled.                                        *)
(***************************************************************************)
C29_RejectionLeavesNoTrace ==
    [][(RunExtractionEmptyEmail \/ RunExtractionInvalidMonth) =>
          /\ workers' = workers
          /\ run_button' = "normal"
          /\ environ' = environ
          /\ cfg' = cfg]_vars

\* Supporting C29: the part the code keeps, a rejection starts no worker and
\* leaves the configured dates alone.
C29_RejectionStartsNoWorker ==
    [][(RunExtractionEmptyEmail \/ RunExtractionInvalidMonth) =>
          /\ workers' = workers
          /\ cfg' = cfg]_vars

\* Supporting C29: a rejection leaves SNOWFLAKE_USER alone.
C29_RejectionKeepsIdentity ==
    [][(RunExtractionEmptyEmail \/ RunExtractionInvalidMonth) => environ' = environ]_vars

(***************************************************************************)
(* C30: the merge and the clearing of the rows of transaction index >= 2   *)
(* change item-derived columns only: no order-level label is taken for an  *)
(* item column, the order-level labels of the result are those of the      *)
(* order table, and row by row every order-level cell has after lines 181  *)
(* and 188 the value it had in the order table; line 191 reorders these    *)
(* rows and changes no cell.                                               *)
(***************************************************************************)
C30_OrderColumnsUntouched ==
    Called =>
        LET cleared == ClearItemColumns(MergeLeft(df_orders, df_pivot))
        IN  /\ \A c \in Range(OrderLevelColumns) : ~IsItemColumn(c)
            /\ SubSeq(df_final.columns, 1, Len(OrderLevelColumns)) = OrderLevelColumns
            /\ Len(cleared.rows) = Len(df_orders.rows)
            /\ \A k \in 1..Len(df_orders.rows) :
                  \A c \in DOMAIN df_orders.rows[k] :
                      cleared.rows[k][c] = df_orders.rows[k][c]
            /\ df_final = SortValues(cleared)
            /\ \A k \in 1..Len(df_final.rows) :
                  \E j \in 1..Len(cleared.rows) : df_final.rows[k] = cleared.rows[j]

\* After the call: a row of transaction index 2 of an order with item rows,
\* whose item columns were cleared and whose payment of 9 is in place, next
\* to a row of the same order that kept its items.
C30_Witness ==
    /\ Called
    /\ \E k, j \in 1..Len(df_final.rows) :
          /\ df_final.rows[k]["gp_order_id"] \in IdsOf(df_items_in)
          /\ df_final.rows[k]["braintree_tx_index"] = Num(2)
          /\ df_final.rows[k]["total_products"] = NaN
          /\ df_final.rows[k]["total_payment_inc_vat"] = Num(9)
          /\ df_final.rows[j]["gp_order_id"] = df_final.rows[k]["gp_order_id"]
          /\ df_final.rows[j]["total_products"] # NaN
          /\ df_final.rows[j]["total_payment_inc_vat"] = Num(7)

=============================================================================
